---- MODULE Spec2Model ----
(***************************************************************************)
(* A model of src/converter.py: the MKV -> MP4 conversion handler          *)
(* (MKVHandler), its startup scan, the watchdog callback on_created and    *)
(* the external ffprobe / ffmpeg processes it drives.                      *)
(*                                                                         *)
(* Text values that the code parses or formats (the resolution specifier,  *)
(* the bitrate arguments) are sequences of one-character strings, so that  *)
(* lower(), replace(), split(), int(), float() and the f-strings are       *)
(* computed character by character as Python computes them.  A path is the *)
(* sequence of the dot-separated components of its file name (all files    *)
(* live in the watched root directory).  Python's None and the empty       *)
(* string, which every test in the code treats alike (both are falsy), are *)
(* both the empty sequence Null.                                           *)
(***************************************************************************)
EXTENDS Integers, Sequences, FiniteSets, TLC

\* ------------------------------------------------------------------ bounds

\* Conversion attempts one run of the program may start.
MaxAttempts == 2

\* File-creation notifications the environment may produce in one run.
MaxCreates == 1

\* ------------------------------------------------------------- text values

Null == <<>>

DigitChars == {"0", "1", "2", "3", "4", "5", "6", "7", "8", "9"}

DigitVal(c) ==
  CASE c = "0" -> 0 [] c = "1" -> 1 [] c = "2" -> 2 [] c = "3" -> 3
    [] c = "4" -> 4 [] c = "5" -> 5 [] c = "6" -> 6 [] c = "7" -> 7
    [] c = "8" -> 8 [] c = "9" -> 9

DigitChar(d) ==
  CASE d = 0 -> "0" [] d = 1 -> "1" [] d = 2 -> "2" [] d = 3 -> "3"
    [] d = 4 -> "4" [] d = 5 -> "5" [] d = 6 -> "6" [] d = 7 -> "7"
    [] d = 8 -> "8" [] d = 9 -> "9"

\* str.lower() on one character / one word of the alphabet the inputs use.
LowerChar(c) ==
  CASE c = "P" -> "p" [] c = "X" -> "x" [] c = "M" -> "m" [] OTHER -> c

LowerWord(w) ==
  CASE w = "MKV" -> "mkv" [] w = "Mkv" -> "mkv" [] OTHER -> w

lower(s) == [i \in 1..Len(s) |-> LowerChar(s[i])]

\* c in s
Contains(s, c) == \E i \in 1..Len(s) : s[i] = c

\* s.replace(c, '')
Remove(s, c) == SelectSeq(s, LAMBDA x : x # c)

\* int(s) succeeds on a non-empty run of decimal digits (the inputs carry no
\* sign, blank or underscore); otherwise it raises ValueError.
IsIntText(s) == Len(s) > 0 /\ \A i \in 1..Len(s) : s[i] \in DigitChars

RECURSIVE IntOf(_)
IntOf(s) ==
  IF s = <<>> THEN 0
  ELSE 10 * IntOf(SubSeq(s, 1, Len(s) - 1)) + DigitVal(s[Len(s)])

\* str(n) for n >= 0
RECURSIVE StrOf(_)
StrOf(n) ==
  IF n < 10 THEN <<DigitChar(n)>>
  ELSE StrOf(n \div 10) \o <<DigitChar(n % 10)>>

\* float(s) in tenths, for the texts the bitrate table produces: digits with
\* at most one fractional digit ("4", "1.5").
FloatTenths(s) ==
  IF Contains(s, ".")
    THEN LET dot == CHOOSE i \in 1..Len(s) : s[i] = "."
         IN  10 * IntOf(SubSeq(s, 1, dot - 1)) + IntOf(SubSeq(s, dot + 1, Len(s)))
    ELSE 10 * IntOf(s)

\* ------------------------------------------------------------------- paths

\* Path.with_suffix(suffix): the last dot-separated component of the name is
\* replaced by the components of the new suffix; a name without a suffix
\* gets the suffix appended.
with_suffix(path, suffix) ==
  IF Len(path) > 1 THEN SubSeq(path, 1, Len(path) - 1) \o suffix
  ELSE path \o suffix

\* MKVHandler.get_output_path
get_output_path(input_path) == with_suffix(input_path, <<"mp4">>)

\* output_path.with_suffix('.temp.mp4')
temp_path_of(output_path) == with_suffix(output_path, <<"temp", "mp4">>)

\* event.src_path.lower().endswith('.mkv')
EndsWithMkvLower(path) ==
  Len(path) > 1 /\ LowerWord(path[Len(path)]) = "mkv"

\* the pattern '*.*' in the place of '*.mkv'
MatchesGlobMkv_AnySuffix(path) == Len(path) > 1

\* the pattern '*.mkv' of root_dir.rglob, matched case-sensitively
MatchesGlobMkv(path) == Len(path) > 1 /\ path[Len(path)] = "mkv"

\* --------------------------------------------- MKVHandler: pure computations

\* MKVHandler.parse_resolution.  raised: int() or the two-name unpacking
\* raised ValueError; dims: Null for None, else <<width, height>>.
parse_resolution(resolution_str) ==
  LET s == lower(resolution_str)
      None == [raised |-> FALSE, dims |-> Null]
      ValueError == [raised |-> TRUE, dims |-> Null]
  IN
  IF resolution_str = Null THEN None
  ELSE IF Contains(s, "p")
    THEN LET t == Remove(s, "p")
         IN  IF IsIntText(t)
               THEN [raised |-> FALSE,
                     dims |-> <<(IntOf(t) * 16) \div 9, IntOf(t)>>]
               ELSE ValueError
  ELSE IF Contains(s, "x")
    THEN LET xs == {i \in 1..Len(s) : s[i] = "x"}
         IN  IF Cardinality(xs) = 1
               THEN LET i == CHOOSE j \in xs : TRUE
                        w == SubSeq(s, 1, i - 1)
                        h == SubSeq(s, i + 1, Len(s))
                    IN  IF IsIntText(w) /\ IsIntText(h)
                          THEN [raised |-> FALSE, dims |-> <<IntOf(w), IntOf(h)>>]
                          ELSE ValueError
               ELSE ValueError
  ELSE None

\* MKVHandler.get_recommended_bitrate (fps and pixels do not enter the result)
get_recommended_bitrate(width, height) ==
  IF height <= 480 THEN <<"1", ".", "5", "M">>
  ELSE IF height <= 720 THEN <<"2", ".", "5", "M">>
  ELSE IF height <= 1080 THEN <<"4", "M">>
  ELSE <<"8", "M">>

\* f"{int(float(self.maxrate[:-1]) * 2)}M"
derived_bufsize(maxrate) ==
  StrOf((FloatTenths(SubSeq(maxrate, 1, Len(maxrate) - 1)) * 2) \div 10) \o <<"M">>

\* bufsize or (maxrate * 2 if maxrate else None): on the text maxrate, * 2
\* is Python's sequence repetition.
init_bufsize(maxrate, bufsize) ==
  IF bufsize # Null THEN bufsize
  ELSE IF maxrate # Null THEN maxrate \o maxrate
  ELSE Null

\* 1024*1024
MiB == 1048576

\* round(bytes / (1024*1024), 2), in hundredths of a MB (no byte count is
\* exactly half way between two hundredths)
size_mb(bytes) == (bytes * 200 + MiB) \div (2 * MiB)

NoInfo == [ok |-> FALSE, width |-> 0, height |-> 0, duration |-> 0, size |-> 0]

\* get_video_info without the test of line 87
get_video_info_AnyExit(probe) ==
  IF ~probe.parseable \/ ~probe.has_video \/ ~probe.has_fields THEN NoInfo
  ELSE [ok |-> TRUE, width |-> probe.width, height |-> probe.height,
        duration |-> probe.duration, size |-> size_mb(probe.size)]

\* MKVHandler.get_video_info on what ffprobe gave: None (NoInfo) when ffprobe
\* exits non-zero; when json.loads, a missing key or a number conversion
\* raises (caught inside); when no stream is a video stream.
get_video_info(probe) ==
  IF probe.returncode # 0 THEN NoInfo
  ELSE IF ~probe.parseable THEN NoInfo
  ELSE IF ~probe.has_video THEN NoInfo
  ELSE IF ~probe.has_fields THEN NoInfo
  ELSE [ok |-> TRUE, width |-> probe.width, height |-> probe.height,
        duration |-> probe.duration, size |-> size_mb(probe.size)]

\* ------------------------------------------------------------ file system

Absent == [exists |-> FALSE, size |-> 0, whole |-> FALSE]

\* a regular file of `size` bytes; whole = FALSE while its writer has not
\* finished it
File(size, whole) == [exists |-> TRUE, size |-> size, whole |-> whole]

\* verify_conversion with st_size >= 0 for st_size > 0
verify_conversion_AllowEmpty(file) == file.exists

\* MKVHandler.verify_conversion
verify_conversion(file) ==
  IF ~file.exists THEN FALSE ELSE file.size > 0

\* ------------------------------------------------------------------ inputs

\* MKV files of the watched tree.  movie.temp.mkv is an ordinary MKV name.
SrcNames == {<<"movie", "mkv">>, <<"movie", "temp", "mkv">>}

\* every path an attempt on one of them reads or writes
Paths ==
  SrcNames \cup {get_output_path(p) : p \in SrcNames}
           \cup {temp_path_of(get_output_path(p)) : p \in SrcNames}

\* sizes in bytes of the MKV files, and of a finished encoder output
SrcSizes == {4000, 3000000}
OutSizes == {0, 2000000}

\* --resolution: absent, 480p, 720P, 1280x720, 720 (no unit), 1280x720p
ResSpecs ==
  { Null,
    <<"4", "8", "0", "p">>,
    <<"7", "2", "0", "P">>,
    <<"1", "2", "8", "0", "x", "7", "2", "0">>,
    <<"7", "2", "0">>,
    <<"1", "2", "8", "0", "x", "7", "2", "0", "p">> }

\* --maxrate, --bufsize, --tune
Maxrates == {Null, <<"4", "M">>}
Bufsizes == {Null, <<"6", "M">>}
Tunes == {<<"film">>}

\* the command line: argparse's namespace (main, lines 274-299)
Args ==
  [resolution : ResSpecs, preset : {<<"medium">>}, crf : {23},
   profile : {<<"high">>}, tune : Tunes, maxrate : Maxrates, bufsize : Bufsizes]

\* what the video in a file can be: <<width, height, duration in seconds>>
Media == {<<640, 480, 120>>, <<1280, 720, 120>>, <<1920, 1080, 0>>, <<3840, 2160, 120>>}

\* what ffprobe can answer for a file of `size` bytes
ProbeOutputs(size) ==
  LET Doc(rc, parseable, has_video, has_fields, m) ==
        [returncode |-> rc, parseable |-> parseable, has_video |-> has_video,
         has_fields |-> has_fields, width |-> m[1], height |-> m[2],
         duration |-> m[3], size |-> size]
  IN  {Doc(0, TRUE, TRUE, TRUE, m) : m \in Media}
        \cup { Doc(1, TRUE, TRUE, TRUE, <<1280, 720, 120>>),
               Doc(0, FALSE, TRUE, TRUE, <<1280, 720, 120>>),
               Doc(0, TRUE, FALSE, TRUE, <<1280, 720, 120>>),
               Doc(0, TRUE, TRUE, FALSE, <<1280, 720, 120>>) }

NoProbe ==
  [returncode |-> 0, parseable |-> FALSE, has_video |-> FALSE,
   has_fields |-> FALSE, width |-> 0, height |-> 0, duration |-> 0, size |-> 0]

\* ------------------------------------------------------------------- state

VARIABLES
  args,      \* main: the parsed command line (never assigned after parsing)
  self,      \* the MKVHandler's attributes
  fs,        \* the watched directory: path -> file
  phase,     \* "scan": MKVHandler.__init__ is in scan_existing_files;
             \* "watch": the observer runs; "crashed": an exception left
             \* convert_mkv_to_mp4 and ended its caller; "stopping": main
             \* has called observer.stop() and waits in observer.join();
             \* "exited": the program has ended on an interrupt
  pending,   \* files root_dir.rglob('*.mkv') has still to yield
  events,    \* the observer's queue of creation events
  pc,        \* position in convert_mkv_to_mp4 ("idle": no call is active,
             \* "returned": the call has just ended, "interrupted": a
             \* KeyboardInterrupt has left the call and ended the program)
  loc,       \* the locals of the call, and its outcome
  process,   \* the ffmpeg child of the call
  progress,  \* the FFmpegProgress bar: "unset", "open", "closed"
  attempts,  \* calls of convert_mkv_to_mp4 so far
  creates,   \* creation notifications so far
  published, \* output paths logged as "Successfully converted" (line 239)
  active,    \* the threads that are inside convert_mkv_to_mp4: "main"
             \* (scan_existing_files) and "observer" (on_created)
  history    \* what has become of each MKV path: "none" (never in the
             \* tree), "new" (put there, no call on it yet), "tried" (a
             \* call on it began), "done" (a call on it completed)

vars ==
  <<args, self, fs, phase, pending, events, pc, loc, process, progress,
    attempts, creates, published, active, history>>

NoCmd ==
  [built |-> FALSE, i |-> Null, cv |-> "none", preset |-> Null, crf |-> Null,
   profile |-> Null, maxrate |-> Null, bufsize |-> Null, tune |-> Null,
   vf |-> Null, out |-> Null]

\* the ffmpeg child.  state: "none", "running", "blocked" (in a write to
\* its full stderr pipe), "exited"; lines: the progress blocks in its
\* stdout pipe that the call has not read yet;
\* stderr: the statistics lines in the stderr pipe of the living child,
\* which nothing reads
NoProcess ==
  [state |-> "none", returncode |-> 0, opened |-> FALSE, lines |-> 0,
   stderr |-> 0]

\* the frame of a call before its first statement.  outcome: "none" while
\* the call runs, then "probe_failed" (line 150), "completed" (line 252),
\* "failed" (lines 254-263) or "escaped" (an exception left the call).
\* checked, temp_seen, moved, os_error, unlink_failed and fs0 record what
\* the call did: line 237 was reached and the file it found at the temporary
\* path, line 238 returned, a file operation or Popen raised OSError, a
\* removal of the temporary file raised, the directory when the call began.
\* raised_at is the source line of the last exception raised in the call,
\* 0 when none was raised.  progress_n is progress.progress_bar.n, the
\* value on display while the bar is open, in tenths of a percent.
NoLocals ==
  [thread |-> "none",
   input_path |-> Null, output_path |-> Null, temp_output_path |-> Null,
   probe |-> NoProbe, video_info |-> NoInfo, target_dims |-> Null,
   needs_downscale |-> FALSE, cmd |-> NoCmd, outcome |-> "none",
   checked |-> FALSE, temp_seen |-> Absent, moved |-> FALSE,
   os_error |-> FALSE, raised_at |-> 0, progress_n |-> 0,
   unlink_failed |-> FALSE, fs0 |-> [p \in Paths |-> Absent]]

\* MKVHandler.__init__, lines 35-42
init_self(a) ==
  [target_resolution |-> a.resolution, encoding_preset |-> a.preset,
   crf |-> a.crf, profile |-> a.profile, tune |-> a.tune,
   maxrate |-> a.maxrate, bufsize |-> init_bufsize(a.maxrate, a.bufsize)]

\* line 66: the files self.root_dir.rglob('*.mkv') yields on directory f
rglob_mkv(f) == {p \in Paths : f[p].exists /\ MatchesGlobMkv(p)}

\* main up to the construction of the handler, and the handler's __init__ up
\* to the start of scan_existing_files: rglob sees the MKV files in the tree.
Init ==
  /\ args \in Args
  /\ self = init_self(args)
  /\ \E present \in SUBSET SrcNames, size \in SrcSizes :
       fs = [p \in Paths |-> IF p \in present THEN File(size, TRUE) ELSE Absent]
  /\ phase = "scan"
  /\ pending = rglob_mkv(fs)
  /\ events = <<>>
  /\ pc = "idle"
  /\ loc = NoLocals
  /\ process = NoProcess
  /\ progress = "unset"
  /\ attempts = 0
  /\ creates = 0
  /\ published = {}
  /\ active = {}
  /\ history = [p \in SrcNames |-> IF fs[p].exists THEN "new" ELSE "none"]

\* unread progress lines the stdout pipe of ffmpeg may hold
MaxLines == 1

\* statistics lines the stderr pipe of ffmpeg holds before a write blocks
StderrCap == 2

\* the out_time_ms values ffmpeg prints, in microseconds: half and one and
\* a half times the 120 seconds of Media
OutTimes == {60000000, 180000000}

\* lines 231-233 and 25-26: int(group) / 1000000 seconds, divided by the
\* duration in seconds, times 100; here in tenths of a percent
percent_of(out_time_ms, duration) == out_time_ms \div (duration * 1000)

\* --------------------------------------------------- convert_mkv_to_mp4

\* lines 143-145: thread calls convert_mkv_to_mp4 on mkv_path
Begin(mkv_path, thread) ==
  /\ attempts < MaxAttempts
  /\ attempts' = attempts + 1
  /\ active' = active \cup {thread}
  /\ history' = [history EXCEPT ![mkv_path] = "tried"]
  /\ loc' = [NoLocals EXCEPT
               !.thread = thread,
               !.input_path = mkv_path,
               !.output_path = get_output_path(mkv_path),
               !.temp_output_path = temp_path_of(get_output_path(mkv_path)),
               !.fs0 = fs]
  /\ process' = NoProcess
  /\ progress' = "unset"
  /\ pc' = "probe"

\* lines 147-150: ffprobe runs on the file; without video info the call
\* logs and returns
Probe ==
  /\ pc = "probe"
  /\ \E probe \in ProbeOutputs(fs[loc.input_path].size) :
       LET video_info == get_video_info(probe)
       IN  /\ loc' = [loc EXCEPT
                        !.probe = probe,
                        !.video_info = video_info,
                        !.outcome = IF video_info.ok THEN "none" ELSE "probe_failed"]
           /\ pc' = IF video_info.ok THEN "plan" ELSE "returned"
  /\ UNCHANGED <<args, self, fs, phase, pending, events, process, progress,
                 attempts, creates,
                 published, active, history>>

\* lines 154-158 with >= for >
NeedsDownscale_OrEqual(target_dims, current_height) ==
  target_dims # Null /\ current_height >= target_dims[2]

\* lines 154-158
NeedsDownscale(target_dims, current_height) ==
  target_dims # Null /\ current_height > target_dims[2]

\* lines 161-166: the handler's own maxrate and bufsize are assigned
plan_rates(s, needs_downscale, target_dims, video_info) ==
  IF s.maxrate = Null
    THEN LET maxrate ==
               IF needs_downscale
                 THEN get_recommended_bitrate(target_dims[1], target_dims[2])
                 ELSE get_recommended_bitrate(video_info.width, video_info.height)
         IN  [s EXCEPT !.maxrate = maxrate, !.bufsize = derived_bufsize(maxrate)]
    ELSE s

\* line 192 without the test of self.maxrate
ReencodeNeeded_DownscaleOnly(needs_downscale, maxrate) == needs_downscale

\* line 192
ReencodeNeeded(needs_downscale, maxrate) == needs_downscale \/ maxrate # Null

\* f'scale={target_width}:{target_height}'
scale_filter(target_dims) ==
  <<"s", "c", "a", "l", "e", "=">> \o StrOf(target_dims[1]) \o <<":">>
    \o StrOf(target_dims[2])

\* lines 183-215: the ffmpeg command line, by option.  The audio options,
\* -movflags, -y and -progress are the same in every command.
ffmpeg_cmd(s, input_path, temp_output_path, needs_downscale, target_dims) ==
  IF ReencodeNeeded(needs_downscale, s.maxrate)
    THEN [built |-> TRUE, i |-> input_path, cv |-> "libx264",
          preset |-> s.encoding_preset, crf |-> StrOf(s.crf),
          profile |-> s.profile, maxrate |-> s.maxrate, bufsize |-> s.bufsize,
          tune |-> s.tune,
          vf |-> IF needs_downscale THEN scale_filter(target_dims) ELSE Null,
          out |-> temp_output_path]
    ELSE [NoCmd EXCEPT !.built = TRUE, !.i = input_path, !.cv = "copy",
                       !.out = temp_output_path]

\* lines 152-215: parse the target, decide on downscaling, settle the
\* bitrates, build the command.  A ValueError of parse_resolution is caught
\* at line 258.
Plan ==
  /\ pc = "plan"
  /\ LET parsed == parse_resolution(self.target_resolution)
     IN  IF parsed.raised
           THEN /\ pc' = "except"
                /\ loc' = [loc EXCEPT !.raised_at = 153]
                /\ UNCHANGED self
           ELSE LET needs_downscale ==
                      NeedsDownscale(parsed.dims, loc.video_info.height)
                    s == plan_rates(self, needs_downscale, parsed.dims, loc.video_info)
                IN  /\ self' = s
                    /\ loc' = [loc EXCEPT
                                 !.target_dims = parsed.dims,
                                 !.needs_downscale = needs_downscale,
                                 !.cmd = ffmpeg_cmd(s, loc.input_path,
                                                    loc.temp_output_path,
                                                    needs_downscale, parsed.dims)]
                    /\ pc' = "launch"
  /\ UNCHANGED <<args, fs, phase, pending, events, process, progress,
                 attempts, creates,
                 published, active, history>>

\* lines 217-224: the progress bar is made, then ffmpeg is started; Popen
\* raises when the program cannot be started
Launch ==
  /\ pc = "launch"
  /\ progress' = "open"
  /\ \E started \in BOOLEAN :
       IF started
         THEN /\ process' = [NoProcess EXCEPT !.state = "running"]
              /\ pc' = "pump"
              /\ UNCHANGED loc
         ELSE /\ loc' = [loc EXCEPT !.os_error = TRUE, !.raised_at = 219]
              /\ pc' = "except"
              /\ UNCHANGED process
  /\ UNCHANGED <<args, self, fs, phase, pending, events, attempts, creates,
                 published, active, history>>

\* ------------------------------------------------------------ ffmpeg
\* The child writes the file named last on its command line.  Once the
\* call has left its read loop with the child still running (an exception
\* at line 233), the call removes that file; the child keeps its unlinked
\* file open and changes no path any more, so its steps end there.

\* -y: the output file is created, or truncated if it exists
EncoderOpen ==
  /\ pc = "pump" /\ process.state = "running" /\ ~process.opened
  /\ process' = [process EXCEPT !.opened = TRUE]
  /\ fs' = [fs EXCEPT ![loc.cmd.out] = File(0, FALSE)]
  /\ UNCHANGED <<args, self, phase, pending, events, pc, loc, progress,
                 attempts, creates,
                 published, active, history>>

\* frames are written, a progress block (out_time_ms=...) is printed to
\* stdout and a statistics line to stderr
EncoderWrite ==
  /\ pc = "pump" /\ process.state = "running" /\ process.opened
  /\ process.lines < MaxLines
  /\ process.stderr < StderrCap
  /\ process' = [process EXCEPT !.lines = @ + 1, !.stderr = @ + 1]
  /\ fs' = [fs EXCEPT ![loc.cmd.out] = File(1000000, FALSE)]
  /\ UNCHANGED <<args, self, phase, pending, events, pc, loc, progress,
                 attempts, creates,
                 published, active, history>>

\* the output is finished, the last progress block and the last
\* statistics line are printed, exit code 0
EncoderFinish ==
  /\ pc = "pump" /\ process.state = "running" /\ process.opened
  /\ process.lines < MaxLines
  /\ process.stderr < StderrCap
  /\ \E size \in OutSizes :
       fs' = [fs EXCEPT ![loc.cmd.out] = File(size, TRUE)]
  /\ process' = [process EXCEPT !.state = "exited", !.returncode = 0,
                                !.lines = @ + 1, !.stderr = 0]
  /\ UNCHANGED <<args, self, phase, pending, events, pc, loc, progress,
                 attempts, creates,
                 published, active, history>>

\* stderr=subprocess.PIPE (line 222) and no read of process.stderr
\* anywhere: once the pipe is full, the next statistics line blocks ffmpeg
\* in its write, for as long as the program lives
EncoderBlock ==
  /\ pc = "pump" /\ process.state = "running" /\ process.opened
  /\ process.stderr = StderrCap
  /\ process' = [process EXCEPT !.state = "blocked"]
  /\ UNCHANGED <<args, self, fs, phase, pending, events, pc, loc, progress,
                 attempts, creates,
                 published, active, history>>

\* ffmpeg gives up at any point and leaves what it wrote
EncoderFail ==
  /\ pc = "pump" /\ process.state = "running"
  /\ process' = [process EXCEPT !.state = "exited", !.returncode = 1,
                                !.stderr = 0]
  /\ UNCHANGED <<args, self, fs, phase, pending, events, pc, loc, progress,
                 attempts, creates,
                 published, active, history>>

\* exit code 0 without an output file
EncoderNoOutput ==
  /\ pc = "pump" /\ process.state = "running" /\ ~process.opened
  /\ process' = [process EXCEPT !.state = "exited", !.returncode = 0]
  /\ UNCHANGED <<args, self, fs, phase, pending, events, pc, loc, progress,
                 attempts, creates,
                 published, active, history>>

\* lines 226-233, a progress line is read: progress.update divides the
\* time by the duration (line 25), ZeroDivisionError on a duration of 0.
\* The out_time_ms of the line is ffmpeg's choice, taken here, where the
\* line is read.
PumpLine ==
  /\ pc = "pump" /\ process.lines > 0
  /\ IF loc.video_info.duration = 0
       THEN /\ pc' = "except"
            /\ loc' = [loc EXCEPT !.raised_at = 25]
            /\ UNCHANGED process
       ELSE /\ pc' = pc
            /\ process' = [process EXCEPT !.lines = @ - 1]
            /\ \E out_time_ms \in OutTimes :
                 loc' = [loc EXCEPT
                           !.progress_n = percent_of(out_time_ms,
                                                     loc.video_info.duration)]
  /\ UNCHANGED <<args, self, fs, phase, pending, events, progress,
                 attempts, creates,
                 published, active, history>>

\* lines 228-229 and 235: end of output and the child has exited
PumpEOF ==
  /\ pc = "pump" /\ process.state = "exited" /\ process.lines = 0
  /\ progress' = "closed"
  /\ loc' = [loc EXCEPT !.progress_n = 0]
  /\ pc' = "verify"
  /\ UNCHANGED <<args, self, fs, phase, pending, events, process,
                 attempts, creates,
                 published, active, history>>

\* line 237 without the test of the exit code
ConversionOk_AnyExit(returncode, temp_file) == verify_conversion(temp_file)

\* line 237
ConversionOk(returncode, temp_file) ==
  returncode = 0 /\ verify_conversion(temp_file)

Verify ==
  /\ pc = "verify"
  /\ loc' = [loc EXCEPT !.checked = TRUE, !.temp_seen = fs[loc.temp_output_path]]
  /\ pc' = IF ConversionOk(process.returncode, fs[loc.temp_output_path])
             THEN "move" ELSE "cleanup"
  /\ UNCHANGED <<args, self, fs, phase, pending, events, process, progress,
                 attempts, creates,
                 published, active, history>>

\* line 238: shutil.move renames the temporary file onto the output path
Move ==
  /\ pc = "move"
  /\ \E moved \in BOOLEAN :
       IF moved
         THEN /\ fs' = [fs EXCEPT ![loc.output_path] = fs[loc.temp_output_path],
                                  ![loc.temp_output_path] = Absent]
              /\ loc' = [loc EXCEPT !.moved = TRUE]
              /\ published' = published \cup {loc.output_path}
              /\ pc' = "report"
         ELSE /\ loc' = [loc EXCEPT !.os_error = TRUE, !.raised_at = 238]
              /\ pc' = "except"
              /\ UNCHANGED <<fs, published>>
  /\ UNCHANGED <<args, self, phase, pending, events, process, progress,
                 attempts, creates, active, history>>

\* lines 242-249: the sizes are reported; line 244 divides by the probed
\* size in MB, ZeroDivisionError when that rounded to 0.0
Report ==
  /\ pc = "report"
  /\ pc' = IF loc.video_info.size = 0 THEN "except" ELSE "unlink"
  /\ loc' = IF loc.video_info.size = 0
             THEN [loc EXCEPT !.raised_at = 244] ELSE loc
  /\ UNCHANGED <<args, self, fs, phase, pending, events, process,
                 progress, attempts, creates,
                 published, active, history>>

\* lines 251-252
UnlinkSource ==
  /\ pc = "unlink"
  /\ \E removed \in BOOLEAN :
       IF removed
         THEN /\ fs' = [fs EXCEPT ![loc.input_path] = Absent]
              /\ loc' = [loc EXCEPT !.outcome = "completed"]
              /\ history' = [history EXCEPT ![loc.input_path] = "done"]
              /\ pc' = "returned"
         ELSE /\ loc' = [loc EXCEPT !.os_error = TRUE, !.raised_at = 251]
              /\ pc' = "except"
              /\ UNCHANGED <<fs, history>>
  /\ UNCHANGED <<args, self, phase, pending, events, process, progress,
                 attempts, creates,
                 published, active>>

\* lines 253-256
Cleanup ==
  /\ pc = "cleanup"
  /\ IF fs[loc.temp_output_path].exists
       THEN \E removed \in BOOLEAN :
              IF removed
                THEN /\ fs' = [fs EXCEPT ![loc.temp_output_path] = Absent]
                     /\ loc' = [loc EXCEPT !.outcome = "failed"]
                     /\ pc' = "returned"
                ELSE /\ loc' = [loc EXCEPT !.os_error = TRUE, !.unlink_failed = TRUE,
                                           !.raised_at = 256]
                     /\ pc' = "except"
                     /\ UNCHANGED fs
       ELSE /\ loc' = [loc EXCEPT !.outcome = "failed"]
            /\ pc' = "returned"
            /\ UNCHANGED fs
  /\ UNCHANGED <<args, self, phase, pending, events, process, progress,
                 attempts, creates,
                 published, active, history>>

\* lines 258-263: the handler of every Exception.  Its own unlink is not
\* guarded: when it raises, the exception leaves convert_mkv_to_mp4 and
\* ends the caller (MKVHandler.__init__ during the scan, the observer's
\* dispatching thread afterwards), before progress.close().
Except ==
  /\ pc = "except"
  /\ pc' = "returned"
  /\ IF fs[loc.temp_output_path].exists
       THEN \E removed \in BOOLEAN :
              IF removed
                THEN /\ fs' = [fs EXCEPT ![loc.temp_output_path] = Absent]
                     /\ loc' = [loc EXCEPT !.outcome = "failed"]
                     /\ progress' = IF progress = "unset" THEN "unset" ELSE "closed"
                     /\ UNCHANGED phase
                ELSE /\ loc' = [loc EXCEPT !.outcome = "escaped", !.os_error = TRUE,
                                           !.unlink_failed = TRUE,
                                           !.raised_at = 261]
                     /\ phase' = "crashed"
                     /\ UNCHANGED <<fs, progress>>
       ELSE /\ loc' = [loc EXCEPT !.outcome = "failed"]
            /\ progress' = IF progress = "unset" THEN "unset" ELSE "closed"
            /\ UNCHANGED <<fs, phase>>
  /\ UNCHANGED <<args, self, pending, events, process, attempts, creates,
                 published, active, history>>

\* ------------------------------------------------- the callers of the call

\* control is back in the caller and the frame of the call is gone.  After
\* an exception that left the call there is no caller to go back to.
Return ==
  /\ pc = "returned" /\ phase # "crashed"
  /\ pc' = "idle"
  /\ loc' = NoLocals
  /\ process' = NoProcess
  /\ progress' = "unset"
  /\ active' = active \ {loc.thread}
  /\ UNCHANGED <<args, self, fs, phase, pending, events, attempts, creates,
                 published, history>>

\* scan_existing_files, lines 66-68: the main thread, inside
\* MKVHandler.__init__, converts the next file rglob yields; the loop calls
\* convert_mkv_to_mp4 and goes on when the call is back
ScanNext ==
  /\ phase = "scan" /\ "main" \notin active
  /\ \E mkv_file \in pending :
       /\ pending' = pending \ {mkv_file}
       /\ Begin(mkv_file, "main")
  /\ UNCHANGED <<args, self, fs, phase, events, creates,
                 published>>

\* the observer started although the scan of the constructor still runs
ObserverRunning_DuringScan == phase \in {"scan", "watch"}

\* lines 311-324: observer.start() comes after the constructor of the
\* handler, which does the whole scan, has returned
ObserverRunning == phase = "watch"

\* the scan is over: __init__ returns, main schedules and starts the
\* observer (lines 322-324)
StartWatching ==
  /\ phase = "scan" /\ "main" \notin active /\ pending = {}
  /\ phase' = "watch"
  /\ UNCHANGED <<args, self, fs, pending, events, pc, loc, process, progress,
                 attempts, creates,
                 published, active, history>>

\* MKVHandler.on_created, called for one queued event by the observer's
\* one dispatching thread, which takes the next event when the handler of
\* the last one has returned
OnCreated ==
  /\ ObserverRunning /\ "observer" \notin active /\ events # <<>>
  /\ LET event == Head(events)
     IN  /\ events' = Tail(events)
         /\ IF event.is_directory
              THEN UNCHANGED <<pc, loc, process, progress, attempts, active,
                               history>>
              ELSE IF EndsWithMkvLower(event.src_path)
                THEN Begin(event.src_path, "observer")
                ELSE UNCHANGED <<pc, loc, process, progress, attempts, active,
                                 history>>
  /\ UNCHANGED <<args, self, fs, phase, pending, creates,
                 published>>

\* the operator interrupts the program (SIGINT) while ffmpeg encodes.
\* During the scan the main thread is in the read loop of the call:
\* KeyboardInterrupt is raised there, is no Exception, so passes the
\* handler of line 258 and, the try of line 338 not being entered yet,
\* ends the program.  The signal of a terminal reaches ffmpeg as well,
\* which then exits; a signal sent to the program alone does not.
\* While the observer runs the main thread is in the sleep of line 340:
\* lines 341-344 stop the observer, whose thread goes on with the call it
\* is in, and line 346 waits for it.  What ffmpeg does on the signal is
\* among the steps EncoderFail and EncoderFinish.
Interrupt ==
  /\ phase \in {"scan", "watch"}
  /\ pc = "pump" /\ process.state = "running"
  /\ IF "main" \in active
       THEN /\ phase' = "exited"
            /\ pc' = "interrupted"
            /\ \E signalled \in BOOLEAN :
                 process' = IF signalled
                              THEN [process EXCEPT !.state = "exited",
                                                   !.returncode = 255,
                                                   !.stderr = 0]
                              ELSE process
       ELSE /\ phase' = "stopping"
            /\ UNCHANGED <<pc, process>>
  /\ UNCHANGED <<args, self, fs, pending, events, loc, progress, attempts,
                 creates, published, active, history>>

\* line 346: the observer's thread has ended, observer.join() returns and
\* so does main
Exit ==
  /\ phase = "stopping" /\ "observer" \notin active
  /\ phase' = "exited"
  /\ UNCHANGED <<args, self, fs, pending, events, pc, loc, process, progress,
                 attempts, creates, published, active, history>>

\* ------------------------------------------------------- the environment

\* the sizes in bytes of the MKV files put into the tree while the program
\* runs
CreatedSizes == {3000000}

\* events of things on_created does not convert: a file that is no MKV
\* file, a directory whose name ends in .mkv
OtherEvents ==
  { [src_path |-> <<"notes", "txt">>, is_directory |-> FALSE],
    [src_path |-> <<"extras", "mkv">>, is_directory |-> TRUE] }

\* somebody puts an MKV file into the tree.  The running observer queues
\* an event; before the observer is started nothing is queued, and the
\* directory walk of the scan may or may not come across the new file.
\* Neither the queue nor the walk is looked at while a call runs, and a
\* call touches no MKV file but its own, so a creation during a call is
\* the same as one right after it: creations are taken between calls, and
\* for the same reason one after the other, each when the queue has been
\* worked off.  What a call does with a file does not depend on how the
\* file came into the tree: the files of Init have either size, a file put
\* there later has a size of CreatedSizes.
CreateMkv ==
  /\ phase \in {"scan", "watch"} /\ pc = "idle" /\ creates < MaxCreates
  /\ events = <<>>
  /\ creates' = creates + 1
  /\ \E p \in SrcNames, size \in CreatedSizes :
       /\ ~fs[p].exists
       /\ fs' = [fs EXCEPT ![p] = File(size, TRUE)]
       /\ history' = [history EXCEPT ![p] = "new"]
       /\ IF ObserverRunning
            THEN /\ events' = Append(events, [src_path |-> p, is_directory |-> FALSE])
                 /\ UNCHANGED pending
            ELSE /\ \E seen \in BOOLEAN :
                      pending' = IF seen /\ MatchesGlobMkv(p)
                                   THEN pending \cup {p} ELSE pending
                 /\ UNCHANGED events
  /\ UNCHANGED <<args, self, phase, pc, loc, process, progress, attempts,
                 published, active>>

CreateOther ==
  /\ ObserverRunning /\ pc = "idle" /\ creates < MaxCreates
  /\ events = <<>>
  /\ creates' = creates + 1
  /\ \E event \in OtherEvents : events' = Append(events, event)
  /\ UNCHANGED <<args, self, fs, phase, pending, pc, loc, process, progress,
                 attempts,
                 published, active, history>>

Next ==
  \/ ScanNext \/ StartWatching \/ OnCreated \/ Return
  \/ Probe \/ Plan \/ Launch \/ PumpLine \/ PumpEOF
  \/ Verify \/ Move \/ Report \/ UnlinkSource \/ Cleanup \/ Except
  \/ EncoderOpen \/ EncoderWrite \/ EncoderFinish \/ EncoderFail
  \/ EncoderNoOutput \/ EncoderBlock
  \/ Interrupt \/ Exit
  \/ CreateMkv \/ CreateOther

Spec == Init /\ [][Next]_vars

\* ------------------------------------------------------------ properties

\* the call has ended: it returned, or an exception left it
Ended == pc = "returned"

\* the encoder of the call has exited with this outcome
EncoderExited == process.state = "exited"

\* what line 237 found at the temporary path
TempWasGood == loc.checked /\ loc.temp_seen.exists /\ loc.temp_seen.size > 0
TempWasBad == loc.checked /\ (~loc.temp_seen.exists \/ loc.temp_seen.size = 0)

\* C1: a source file is removed only by the call that works on it, after
\* its encoder exited with code 0, its temporary output was found with
\* non-zero size and the move onto the output path has succeeded (the moved
\* file is at the output path and the temporary path is empty); and a call
\* that ends in any other way than "completed" leaves its source in place.
C1_SourceRemovedOnlyAfterPublish ==
  /\ [][\A p \in SrcNames :
          (fs[p].exists /\ ~fs'[p].exists) =>
            /\ p = loc.input_path
            /\ EncoderExited /\ process.returncode = 0
            /\ TempWasGood
            /\ loc.moved
            /\ fs[loc.output_path] = loc.temp_seen
            /\ ~fs[loc.temp_output_path].exists]_vars
  /\ [](Ended /\ loc.outcome # "completed" => fs[loc.input_path].exists)

\* a call has completed and its source is gone
C1_Witness ==
  /\ Ended /\ loc.outcome = "completed"
  /\ loc.moved /\ ~fs[loc.input_path].exists

\* C2: when the encoder exited with code 0 and the temporary output was
\* found with non-zero size, then at the end of the call the output path
\* holds a file of non-zero size and neither the temporary path nor the
\* source exists.  Stated for the calls in which no file operation raised.
C2_SuccessfulEncodeCompletes ==
  (Ended /\ EncoderExited /\ process.returncode = 0 /\ TempWasGood
     /\ ~loc.os_error)
    => /\ fs[loc.output_path].exists /\ fs[loc.output_path].size > 0
       /\ ~fs[loc.temp_output_path].exists
       /\ ~fs[loc.input_path].exists

\* probing fails: ffprobe exits non-zero, its output cannot be parsed or
\* lacks a field, or no stream is a video stream
ProbeFails(probe) ==
  \/ probe.returncode # 0
  \/ ~probe.parseable
  \/ ~probe.has_fields
  \/ ~probe.has_video

\* C3: after a failed probe the call is at its end, no encoder was started,
\* the source exists, and the temporary and the output path hold what they
\* held when the call began.
C3_ProbeFailureTouchesNothing ==
  (pc \notin {"idle", "probe"} /\ ProbeFails(loc.probe))
    => /\ Ended
       /\ process.state = "none" /\ progress = "unset"
       /\ fs[loc.input_path].exists
       /\ fs[loc.temp_output_path] = loc.fs0[loc.temp_output_path]
       /\ fs[loc.output_path] = loc.fs0[loc.output_path]

\* a call ended on a probe with exit code 1 while a file was at its
\* temporary path
C3_Witness ==
  /\ Ended /\ loc.probe.returncode # 0
  /\ loc.outcome = "probe_failed"
  /\ fs[loc.temp_output_path].exists

\* the encoder exited non-zero, or exited zero and line 237 found the
\* temporary output missing or empty
EncodeFailed ==
  EncoderExited /\ (process.returncode # 0 \/ TempWasBad)

FinalPaths ==
  published \cup (IF pc = "idle" THEN {} ELSE {loc.output_path})

\* C5: no encoder has the output path of any call open for writing, and no
\* file at such a path is partially written.
C5_FinalPathsNeverPartial ==
  \A p \in FinalPaths :
    /\ ~(process.state = "running" /\ process.opened /\ loc.cmd.out = p)
    /\ fs[p].exists => fs[p].whole

\* -maxrate / -bufsize values: digits, optionally one fractional digit, and
\* the unit M; in tenths of a megabit, -1 for any other text
IsRateText(s) ==
  /\ Len(s) >= 2 /\ s[Len(s)] = "M"
  /\ LET body == SubSeq(s, 1, Len(s) - 1)
         dots == {i \in 1..Len(body) : body[i] = "."}
     IN  \/ IsIntText(body)
         \/ /\ Cardinality(dots) = 1
            /\ body[Len(body) - 1] = "."
            /\ IsIntText(SubSeq(body, 1, Len(body) - 2))
            /\ body[Len(body)] \in DigitChars

RateTenths(s) ==
  IF IsRateText(s) THEN FloatTenths(SubSeq(s, 1, Len(s) - 1)) ELSE -1

\* the table of the specification, in tenths of a megabit
TableTenths(height) ==
  IF height <= 480 THEN 15
  ELSE IF height <= 720 THEN 25
  ELSE IF height <= 1080 THEN 40
  ELSE 80

\* the target height a specifier of the two accepted forms names; -1 for no
\* specifier and for texts of neither form
TargetHeightOf(spec) ==
  CASE spec = <<"4", "8", "0", "p">> -> 480
    [] spec = <<"7", "2", "0", "P">> -> 720
    [] spec = <<"1", "2", "8", "0", "x", "7", "2", "0">> -> 720
    [] OTHER -> -1

\* the source of the call is higher than the target given on the command line
DownscaleRequired ==
  /\ TargetHeightOf(args.resolution) >= 0
  /\ loc.video_info.height > TargetHeightOf(args.resolution)

EffectiveHeight ==
  IF DownscaleRequired THEN TargetHeightOf(args.resolution)
  ELSE loc.video_info.height

\* C6: without --maxrate, the -maxrate of every command is the table value
\* of that call's effective height.
C6_MaxrateFromOwnHeight ==
  (args.maxrate = Null /\ loc.cmd.built)
    => RateTenths(loc.cmd.maxrate) = TableTenths(EffectiveHeight)

\* C7: without --bufsize, the -bufsize of every command is twice its
\* -maxrate.
C7_BufsizeTwiceMaxrate ==
  (args.bufsize = Null /\ loc.cmd.built)
    => /\ IsRateText(loc.cmd.maxrate)
       /\ RateTenths(loc.cmd.bufsize) = 2 * RateTenths(loc.cmd.maxrate)

\* the height named by a scale filter: the number after the colon
ScaleHeight(vf) ==
  LET colon == CHOOSE i \in 1..Len(vf) : vf[i] = ":"
  IN  IntOf(SubSeq(vf, colon + 1, Len(vf)))

\* C8: a command carries a scale filter exactly when a target is given and
\* the source is higher than the target; the filter then scales to the
\* target height, which is below the source height.
C8_ScaleOnlyDown ==
  loc.cmd.built
    => /\ (loc.cmd.vf # Null) <=> DownscaleRequired
       /\ loc.cmd.vf # Null =>
            /\ ScaleHeight(loc.cmd.vf) = TargetHeightOf(args.resolution)
            /\ ScaleHeight(loc.cmd.vf) <= loc.video_info.height

\* a command scales a 1080-line source down
C8_Witness ==
  /\ loc.cmd.built /\ loc.cmd.vf # Null
  /\ loc.video_info.height = 1080

\* C9 as stated: with no downscale required and no --maxrate, the command
\* copies the video stream.
C9_CopyWithoutDownscale ==
  (loc.cmd.built /\ ~DownscaleRequired /\ args.maxrate = Null)
    => loc.cmd.cv = "copy"

\* C9 as amended: with no downscale required and no --maxrate, the command
\* still re-encodes the video with libx264, under a -maxrate taken from the
\* bitrate table and without a scale filter.
C9_ReencodeWithoutDownscale ==
  (loc.cmd.built /\ ~DownscaleRequired /\ args.maxrate = Null)
    => /\ loc.cmd.cv = "libx264"
       /\ IsRateText(loc.cmd.maxrate)
       /\ loc.cmd.vf = Null

\* a command for a 640x480 source under the target 720P, without --maxrate
C9_Witness ==
  /\ loc.cmd.built /\ args.maxrate = Null
  /\ args.resolution = <<"7", "2", "0", "P">>
  /\ loc.video_info.height = 480 /\ loc.video_info.width = 640

\* C10: no exception leaves convert_mkv_to_mp4: every call returns to its
\* caller, and the scan and the observer go on.
C10_NoFailureEscapes ==
  loc.outcome # "escaped" /\ phase # "crashed"

\* the probed duration of the call's source is zero
ZeroDuration == loc.video_info.ok /\ loc.video_info.duration = 0

\* the encoder of the call was started
Launched == process.state # "none"

\* C11: in a call on a source whose probed duration is 0, no progress
\* update divides by zero (nothing is raised at line 25), and a call that
\* started its encoder goes on to the check of line 237.
C11_ZeroDurationNoDivision ==
  ZeroDuration
    => /\ loc.raised_at # 25
       /\ (Ended /\ Launched /\ ~loc.os_error) => loc.checked

\* C12: at most one thread is inside convert_mkv_to_mp4, and a call is
\* under way exactly when one is; the observer's thread is inside a call
\* only after the scan has yielded all its files and the main thread has
\* left it; and a call starts only when no call is under way.
C12_OneAttemptAtATime ==
  /\ [](/\ Cardinality(active) <= 1
        /\ (pc # "idle") <=> (active # {})
        /\ "observer" \in active => (phase # "scan" /\ pending = {}))
  /\ [][attempts' # attempts => (pc = "idle" /\ active = {})]_vars

\* the observer's thread is in the second call, the first was of the scan
C12_Witness ==
  /\ active = {"observer"} /\ attempts = 2 /\ pc = "pump"
  /\ phase = "watch"

\* no call is under way and neither the scan nor the observer has a file
\* left to hand over
RunOver == pc = "idle" /\ pending = {} /\ events = <<>>

\* every MKV file that was in the tree has had a call that completed
AllCompleted == \A p \in SrcNames : history[p] \in {"none", "done"}

\* the paths the program writes: the published outputs, and the output and
\* temporary path of the call under way
ProductPaths ==
  published \cup
    (IF pc = "idle" THEN {} ELSE {loc.output_path, loc.temp_output_path})

\* C13: no path the program writes matches the pattern of the scan or the
\* test of on_created; and on the tree left by a run in which every call
\* completed, the scan's rglob yields no file and no file in the tree
\* passes the test of on_created.
C13_SecondScanFindsNothing ==
  /\ \A p \in ProductPaths : ~MatchesGlobMkv(p) /\ ~EndsWithMkvLower(p)
  /\ (RunOver /\ AllCompleted)
       => /\ rglob_mkv(fs) = {}
          /\ \A p \in Paths : fs[p].exists => ~EndsWithMkvLower(p)

\* two calls have completed and published their outputs, nothing is left
\* to do
C13_Witness ==
  /\ RunOver /\ AllCompleted
  /\ Cardinality(published) = 2
  /\ \E p \in published : fs[p].exists

\* C14: when the program has ended or is ending on an interrupt that came
\* while a call was encoding, the encoder of that call is not running and
\* the temporary path of that call holds no file.
C14_InterruptLeavesNoTemp ==
  (pc = "interrupted" \/ (phase = "stopping" /\ Ended /\ ~loc.unlink_failed))
    => /\ process.state # "running"
       /\ ~fs[loc.temp_output_path].exists

\* C15: a call that started its encoder and in which an exception was
\* raised afterwards ends with no file at its temporary path and with the
\* progress bar closed.
C15_ExceptionAfterLaunchCleansUp ==
  (Ended /\ Launched /\ loc.raised_at # 0)
    => /\ ~fs[loc.temp_output_path].exists
       /\ progress = "closed"

\* C16: the handler's attributes stay what the constructor made of the
\* command line, and a command that re-encodes carries the --bufsize of
\* the command line when one was given.
C16_TargetsNeverChange ==
  /\ self = init_self(args)
  /\ (loc.cmd.built /\ loc.cmd.cv = "libx264" /\ args.bufsize # Null)
       => loc.cmd.bufsize = args.bufsize

\* C17: the value progress.update puts on the bar lies between 0 and 100
\* percent (0 and 1000 tenths), whatever out_time_ms the line carried.
C17_PercentWithinBounds ==
  progress = "open" => (0 <= loc.progress_n /\ loc.progress_n <= 1000)

\* a step of the read loop of the call, or of its encoder, can be taken
PumpCanMove ==
  ENABLED (PumpLine \/ PumpEOF \/ EncoderOpen \/ EncoderWrite
             \/ EncoderFinish \/ EncoderFail \/ EncoderNoOutput
             \/ EncoderBlock)

\* C18: a call in its read loop is never stuck: while the program lives,
\* the loop or the encoder can take a step, so the loop comes to its end.
C18_PumpNeverStuck ==
  (pc = "pump" /\ phase \in {"scan", "watch", "stopping"}) => PumpCanMove

\* C19: the output of a completed call changes only when a later call
\* moves its own finished temporary file onto that path (line 238): no
\* encoder writes to it and no cleanup removes it.
C19_PublishedOutputsUntouched ==
  [][\A mkv_path \in SrcNames :
       history[mkv_path] = "done" =>
         LET p == get_output_path(mkv_path)
         IN  fs'[p] # fs[p] => (pc = "move" /\ loc.output_path = p)]_vars

\* a creation event for the file is in the observer's queue
Queued(mkv_path) ==
  \E i \in 1..Len(events) :
    events[i].src_path = mkv_path /\ ~events[i].is_directory

\* C20: while the program runs, every MKV file in the tree on which no call
\* has begun is on its way to one: the scan has it to yield, or a creation
\* event for it is queued.  A file that is neither is never converted: no
\* step adds a file to the scan or to the queue later.
C20_EveryFileGetsAnAttempt ==
  phase \in {"scan", "watch"}
    => \A mkv_path \in SrcNames :
         (fs[mkv_path].exists /\ history[mkv_path] = "new")
           => (mkv_path \in pending \/ Queued(mkv_path))

====
